---- MODULE Spec2Model ----
(***************************************************************************)
(* Model of telegram_bot.py: the Telegram handler download_video (the job  *)
(* manager: identifier counter, temporary input, worker pool, replies,     *)
(* cleanup) and process_video_capcut (caption normalisation, overlay       *)
(* ordering, output naming).                                               *)
(*                                                                         *)
(* Coroutines of the asyncio event loop interleave only at their awaits,   *)
(* so every handler action below runs from the completion of one await to  *)
(* the start of the next one.  Worker threads of EXECUTOR run              *)
(* process_video_capcut in parallel with the event loop.                   *)
(***************************************************************************)
EXTENDS Integers, Sequences, FiniteSets, TLC

\* ------------------------------------------------------------------
\* Bounds of the model
\* ------------------------------------------------------------------
MaxJobs == 3          \* handler invocations in one behaviour
MaxClock == 1         \* the wall clock advances at most this many seconds
MaxFailures == 2      \* raising external calls in one behaviour
MaxSegs == 2          \* segments of a transcription in the caption pipeline
MaxTime == 3          \* largest input timestamp, in hundredths of a second

\* ------------------------------------------------------------------
\* Program constants
\* ------------------------------------------------------------------
MaxWorkers == 2                       \* ThreadPoolExecutor(max_workers=2)
OUTPUT_FOLDER == "output_videos"
FloorNum == 1                         \* 0.01 = FloorNum / FloorDen
FloorDen == 100
DefaultSegLen == 2                    \* seg.get("end", seg_start + 2)
DefaultSegStart == 0                  \* seg.get("start", 0)

Handlers == 1..MaxJobs
TmpNames == 1..MaxJobs                \* names mkstemp can draw

\* ------------------------------------------------------------------
\* Rational numbers <<n, d>>, d > 0, in lowest terms (Python "/" is true
\* division; the model keeps the exact quotient).
\* ------------------------------------------------------------------
Abs(i) == IF i < 0 THEN -i ELSE i

RECURSIVE GCD(_, _)
GCD(a, b) == IF b = 0 THEN a ELSE GCD(b, a % b)

Rat(n, d) ==
    IF n = 0 THEN <<0, 1>>
    ELSE LET g == GCD(Abs(n), d) IN <<n \div g, d \div g>>

RAdd(p, q) == Rat(p[1] * q[2] + q[1] * p[2], p[2] * q[2])
RSub(p, q) == Rat(p[1] * q[2] - q[1] * p[2], p[2] * q[2])
RMulInt(i, p) == Rat(i * p[1], p[2])
RDivInt(p, n) == Rat(p[1], p[2] * n)
RLeq(p, q) == p[1] * q[2] <= q[1] * p[2]
RLess(p, q) == p[1] * q[2] < q[1] * p[2]
RMax(p, q) == IF RLeq(q, p) THEN p ELSE q

Floor == Rat(FloorNum, FloorDen)
Hundredths(k) == Rat(k, 100)

\* ------------------------------------------------------------------
\* Text: a string is a sequence of one-character strings.
\* ------------------------------------------------------------------
Whitespace == {" ", "\t"}

\* str.split() with no argument: the maximal runs of non-whitespace
\* characters, in order (strip() before it changes nothing).
RECURSIVE SplitFrom(_, _, _)
SplitFrom(s, cur, acc) ==
    IF s = <<>> THEN (IF cur = <<>> THEN acc ELSE Append(acc, cur))
    ELSE IF Head(s) \in Whitespace
         THEN SplitFrom(Tail(s), <<>>, IF cur = <<>> THEN acc ELSE Append(acc, cur))
         ELSE SplitFrom(Tail(s), Append(cur, Head(s)), acc)

Split(s) == SplitFrom(s, <<>>, <<>>)

\* dict.get(key, default)
Get(d, key, default) == IF key \in DOMAIN d THEN d[key] ELSE default

\* ------------------------------------------------------------------
\* process_video_capcut, lines 73-101: the caption loop
\* ------------------------------------------------------------------
\* Mutant: the share (seg_end - seg_start) / len(text_words) is computed
\* before the comprehension, and raises ZeroDivisionError for no token.
FallbackRaisesOnNoToken(seg) ==
    IF "text" \notin DOMAIN seg THEN TRUE ELSE Len(Split(seg["text"])) = 0

\* seg["text"] raises KeyError when the key is missing; the lookup happens
\* only on the fallback path.
FallbackRaises(seg) == "text" \notin DOMAIN seg

\* Mutant: the segment is cut into one slice too many.
FallbackWordsOffByOne(seg) ==
    LET text_words == Split(seg["text"])
        seg_start  == Get(seg, "start", Rat(DefaultSegStart, 1))
        seg_end    == Get(seg, "end", RAdd(seg_start, Rat(DefaultSegLen, 1)))
        n          == Len(text_words)
    IN  [i \in 1..n |->
            [start |-> RAdd(seg_start, RMulInt(i - 1, RDivInt(RSub(seg_end, seg_start), n + 1))),
             end   |-> RAdd(seg_start, RMulInt(i, RDivInt(RSub(seg_end, seg_start), n + 1))),
             word  |-> text_words[i]]]

\* lines 78-83: the words synthesized for a segment without word timing.
\* With no token the comprehension yields the empty list and the division
\* by len(text_words) is not evaluated.
FallbackWords(seg) ==
    LET text_words == Split(seg["text"])
        seg_start  == Get(seg, "start", Rat(DefaultSegStart, 1))
        seg_end    == Get(seg, "end", RAdd(seg_start, Rat(DefaultSegLen, 1)))
        n          == Len(text_words)
    IN  [i \in 1..n |->
            [start |-> RAdd(seg_start, RMulInt(i - 1, RDivInt(RSub(seg_end, seg_start), n))),
             end   |-> RAdd(seg_start, RMulInt(i, RDivInt(RSub(seg_end, seg_start), n))),
             word  |-> text_words[i]]]

\* line 74 and line 76: "if not words" takes the fallback for a missing or
\* empty list.
UsesFallback(seg) == Get(seg, "words", <<>>) = <<>>

SegWords(seg) == IF UsesFallback(seg) THEN FallbackWords(seg) ELSE seg["words"]

\* Mutant: the duration is not floored.
DurationUnfloored(w) == RSub(w["end"], w["start"])

\* line 88
Duration(w) == RMax(RSub(w["end"], w["start"]), Floor)

\* lines 91-93: the white text, timed
WordClip(w) ==
    [kind |-> "TextClip", txt |-> w["word"],
     start |-> w["start"], duration |-> Duration(w)]

\* Mutant: the highlight keeps the raw length of the word.
BlueClipUnfloored(w) ==
    [kind |-> "ColorClip", txt |-> w["word"],
     start |-> w["start"], duration |-> RSub(w["end"], w["start"])]

\* line 96: the blue box, sized to the measured text, timed
BlueClip(w) ==
    [kind |-> "ColorClip", txt |-> w["word"],
     start |-> w["start"], duration |-> Duration(w)]

\* Mutant: the text is appended before its highlight.
WordPairTextFirst(w) == <<WordClip(w), BlueClip(w)>>

\* lines 98-99: the two appends for one word
WordPair(w) == <<BlueClip(w), WordClip(w)>>

\* lines 85-99: the clips appended for a list of words
RECURSIVE ClipsOfWords(_)
ClipsOfWords(words) ==
    IF Len(words) = 0 THEN <<>>
    ELSE WordPair(words[1]) \o ClipsOfWords([i \in 1..(Len(words) - 1) |-> words[i + 1]])

\* line 67: the mirrored source track
BaseClip == [kind |-> "VideoFileClip"]

\* line 101
Composite(txt_clips) == <<BaseClip>> \o txt_clips

\* Mutant: only the first segment's text is looked up.
LoopRaisesFirstOnly(segs) ==
    segs # <<>> /\ UsesFallback(Head(segs)) /\ FallbackRaises(Head(segs))

\* lines 73-83: the first segment whose seg["text"] lookup raises KeyError
\* stops the loop.
RECURSIVE LoopRaises(_)
LoopRaises(segs) ==
    IF segs = <<>> THEN FALSE
    ELSE (UsesFallback(Head(segs)) /\ FallbackRaises(Head(segs))) \/ LoopRaises(Tail(segs))

\* lines 71-99: txt_clips after the loop, when no lookup raises
RECURSIVE LoopClips(_)
LoopClips(segs) ==
    IF segs = <<>> THEN <<>>
    ELSE ClipsOfWords(SegWords(Head(segs))) \o LoopClips(Tail(segs))

\* ------------------------------------------------------------------
\* State
\* ------------------------------------------------------------------
VARIABLES
    file_counter,   \* next value of count(start=1)
    issued,         \* history: the values next(file_counter) returned, in order
    last_update,    \* history: the update of the latest handler invocation
    pc,             \* pc[h]: the await the coroutine of invocation h is suspended at
    counter_value,  \* local of download_video (0: not assigned / returned)
    temp_input,     \* local of download_video (0: not assigned / returned)
    exc,            \* the exception caught by "except Exception as e"
    future,         \* the future of run_in_executor for invocation h
    outcome,        \* history: how invocation h went
    sent,           \* history: the replies invocation h asked the bot to send
    tmp_files,      \* temporary files that exist on disk
    output_files,   \* files that exist under OUTPUT_FOLDER
    computed,       \* history: the dest_path computed for each job identifier
    queue,          \* work queue of EXECUTOR
    executing,      \* jobs a worker thread of EXECUTOR is running
    transcribed,    \* history: the transcription result of the finished render of h,
                    \* until the coroutine takes the future's result (0: none)
    clock,          \* wall clock, in seconds
    failures,       \* external calls that have raised so far
    calls,          \* history: how many times invocation h has started the download,
                    \* submitted the render, called model.transcribe
    segments,       \* caption pipeline: result.get("segments", [])
    seg_idx,        \* caption pipeline: segments consumed by the loop
    txt_clips,      \* caption pipeline: txt_clips
    seg_from,       \* history: Len(txt_clips) before each consumed segment
    final,          \* caption pipeline: the list given to CompositeVideoClip
    cap_pc          \* caption pipeline: "idle", "loop", "raised" or "composited"

jobVars == <<file_counter, issued, last_update, pc, counter_value, temp_input,
             exc, future, outcome, sent, tmp_files, output_files, computed,
             queue, executing, transcribed, clock, failures, calls>>
capVars == <<segments, seg_idx, txt_clips, seg_from, final, cap_pc>>
vars == <<jobVars, capVars>>

\* ------------------------------------------------------------------
\* Updates handed to download_video
\* ------------------------------------------------------------------
Updates ==
    { [message |-> FALSE, video |-> FALSE, mime |-> "none"],         \* update.message is None
      [message |-> TRUE,  video |-> TRUE,  mime |-> "none"],         \* native video
      [message |-> TRUE,  video |-> FALSE, mime |-> "video/mp4"],    \* document
      [message |-> TRUE,  video |-> FALSE, mime |-> "video/webm"],   \* document
      [message |-> TRUE,  video |-> FALSE, mime |-> "application/pdf"],  \* document
      [message |-> TRUE,  video |-> FALSE, mime |-> "none"] }        \* neither

\* Mutant: every document is taken.
HasFileObjAnyDocument(u) == u.video \/ u.mime # "none"

\* Mutant: a document of any video media type is taken.
HasFileObjAnyVideoType(u) == u.video \/ u.mime \in {"video/mp4", "video/webm"}

\* lines 119-124: file_obj is set
HasFileObj(u) == u.video \/ u.mime = "video/mp4"

\* ------------------------------------------------------------------
\* Transcription results the collaborator may return to a job
\* ------------------------------------------------------------------
TimedWord(a, b, c) == [start |-> Hundredths(a), end |-> Hundredths(b), word |-> <<c>>]

Transcripts ==
    << \* word-level timing, one word of zero length
       << [start |-> Hundredths(0), end |-> Hundredths(2), text |-> <<"a", " ", "b">>,
           words |-> <<TimedWord(0, 1, "a"), TimedWord(1, 1, "b")>>] >>,
       \* no word-level timing
       << [start |-> Hundredths(0), end |-> Hundredths(2), text |-> <<"a", " ", "b">>] >>,
       \* word-level timing, no text field
       << [start |-> Hundredths(0), end |-> Hundredths(2),
           words |-> <<TimedWord(0, 1, "a")>>] >>,
       \* a good segment, then one with neither words nor text
       << [start |-> Hundredths(0), end |-> Hundredths(2), text |-> <<"a">>],
          [start |-> Hundredths(2), end |-> Hundredths(3)] >> >>

\* What the collaborators of one render do: decoding the input, the
\* transcription (0: raises, else the index of the result), the encoder.
Engines ==
    { [decode |-> "raise", transcribe |-> 0, encode |-> "ok"],
      [decode |-> "ok", transcribe |-> 0, encode |-> "ok"] }
    \cup [decode : {"ok"}, transcribe : DOMAIN Transcripts,
          encode : {"ok", "raise", "raise_partial"}]

\* ------------------------------------------------------------------
\* process_video_capcut, lines 103-107: the output name
\* ------------------------------------------------------------------
TwoDigits(n) == IF n < 10 THEN "0" \o ToString(n) ELSE ToString(n)

\* datetime.now().strftime("%Y%m%d_%H%M%S"); the clock stays within one minute
Strftime(now) == "20260101_0000" \o TwoDigits(now)

\* Mutant: the name is built from the timestamp alone.
DestPathTimestampOnly(cv, now) ==
    OUTPUT_FOLDER \o "/" \o "video_" \o Strftime(now) \o ".mp4"

\* Mutant: every job writes to the same name.
DestPathFixed(cv, now) == OUTPUT_FOLDER \o "/" \o "video.mp4"

\* line 104
DestPath(cv, now) ==
    OUTPUT_FOLDER \o "/" \o "video_" \o ToString(cv) \o "_" \o Strftime(now) \o ".mp4"

Cwd == "/srv"
Abspath(p) == Cwd \o "/" \o p

\* lines 63-107: what one call does, given whether its input file exists,
\* the job identifier, the collaborators' behaviour and the clock.
\* wrote: a file exists at dest afterwards because of this call;
\* transcribe_calls: how many times line 68 ran.
process_video_capcut(input_exists, cv, eng, now) ==
    LET none == [status |-> "err", value |-> "", wrote |-> FALSE, dest |-> "",
                 transcribe_calls |-> 1] IN
    IF eng.decode = "raise" \/ ~input_exists
    THEN [none EXCEPT !.value = "decode", !.transcribe_calls = 0]
    ELSE IF eng.transcribe = 0
    THEN [none EXCEPT !.value = "transcribe"]
    ELSE LET segs  == Transcripts[eng.transcribe]
             composited == Composite(LoopClips(segs))   \* handed to write_videofile
             dest  == DestPath(cv, now)
         IN  IF LoopRaises(segs)
             THEN [none EXCEPT !.value = "'text'"]
             ELSE IF eng.encode = "ok"
             THEN [status |-> "ok", value |-> Abspath(dest), wrote |-> TRUE, dest |-> dest,
                   transcribe_calls |-> 1]
             ELSE [status |-> "err", value |-> "encode",
                   wrote |-> (eng.encode = "raise_partial"), dest |-> dest,
                   transcribe_calls |-> 1]

\* ------------------------------------------------------------------
\* download_video, lines 112-149
\* ------------------------------------------------------------------
\* Mutant: the counter is read without being advanced.
count_peek(c) == [value |-> c, state |-> c]

\* next(file_counter), line 117: the value returned and the counter after
count_next(c) == [value |-> c, state |-> c + 1]

\* Mutant: every job is given the same name.
TmpNameFixed(existing) == {1}

\* tempfile.NamedTemporaryFile(delete=False), line 128: mkstemp creates the
\* file under a name no existing file has.  Names are interchangeable and no
\* name outlives its file in the state, so the least unused name stands for
\* whichever one is drawn.
FreshTmpNames(existing) ==
    {n \in TmpNames \ existing : \A m \in TmpNames \ existing : n <= m}

NoFuture == [status |-> "none", value |-> ""]
NoCalls == [download |-> 0, dispatch |-> 0, transcribe |-> 0]

AckText == "Video recue - traitement en cours..."
ErrorText(e) == "Erreur : " \o e
VideoCaption == "Traitement CapCut PRO termine"

Reply(kind, body, ok) == [kind |-> kind, body |-> body, ok |-> ok]

\* The state of the job of invocation h (spec 4.5), read off the code position.
JobState(h) ==
    IF outcome[h] = "raised" THEN "Failed"
    ELSE IF outcome[h] = "completed" THEN "Completed"
    ELSE IF pc[h] \in {"get_file", "download"} THEN "Received"
    ELSE IF pc[h] = "ack" THEN "Downloaded"
    ELSE IF pc[h] \in {"await_render", "send_video"} THEN "Rendering"
    ELSE "None"

\* Mutant: the exception is logged and the handler ends without replying.
RaiseUnanswered(h, cause) ==
    /\ pc' = [pc EXCEPT ![h] = "done"]
    /\ exc' = [exc EXCEPT ![h] = cause]
    /\ outcome' = [outcome EXCEPT ![h] = "raised"]

\* lines 143-145: an exception of the try block is caught, logged, and the
\* coroutine awaits the error reply.
Raise(h, cause) ==
    /\ pc' = [pc EXCEPT ![h] = "err_reply"]
    /\ exc' = [exc EXCEPT ![h] = cause]
    /\ outcome' = [outcome EXCEPT ![h] = "raised"]

\* Mutant: the input is removed on the success path only.
FinallyOnSuccessOnly(h, files) ==
    IF outcome[h] = "raised" THEN files ELSE files \ {temp_input[h]}

\* Mutant: the cleanup removes every temporary input there is.
FinallySweepsAll(h, files) == {}

\* lines 147-149: the finally block
Finally(h, files) == files \ {temp_input[h]}

\* The coroutine ends: the finally block runs and the locals are gone.
Return(h) ==
    /\ pc' = [pc EXCEPT ![h] = "done"]
    /\ tmp_files' = Finally(h, tmp_files)
    /\ counter_value' = [counter_value EXCEPT ![h] = 0]
    /\ temp_input' = [temp_input EXCEPT ![h] = 0]
    /\ exc' = [exc EXCEPT ![h] = "none"]
    /\ future' = [future EXCEPT ![h] = NoFuture]
    /\ transcribed' = [transcribed EXCEPT ![h] = 0]

\* lines 113-129: from the call to the first await
Invoke(h) ==
    /\ pc[h] = "idle"
    /\ \A g \in Handlers : g < h => pc[g] # "idle"    \* invocations are numbered in call order
    /\ \E u \in Updates :
        /\ last_update' = [h |-> h, update |-> u]
        /\ IF ~u.message
           THEN /\ pc' = [pc EXCEPT ![h] = "done"]
                /\ outcome' = [outcome EXCEPT ![h] = "ignored"]
                /\ UNCHANGED <<file_counter, issued, counter_value, temp_input, tmp_files>>
           ELSE LET n == count_next(file_counter) IN
                /\ file_counter' = n.state
                /\ issued' = Append(issued, n.value)
                /\ IF HasFileObj(u)
                   THEN /\ \E name \in FreshTmpNames(tmp_files) :
                             /\ temp_input' = [temp_input EXCEPT ![h] = name]
                             /\ tmp_files' = tmp_files \cup {name}
                        /\ counter_value' = [counter_value EXCEPT ![h] = n.value]
                        /\ pc' = [pc EXCEPT ![h] = "get_file"]
                        /\ UNCHANGED outcome
                   ELSE /\ pc' = [pc EXCEPT ![h] = "done"]
                        /\ outcome' = [outcome EXCEPT ![h] = "ignored"]
                        /\ UNCHANGED <<counter_value, temp_input, tmp_files>>
    /\ UNCHANGED <<exc, future, sent, output_files, computed, queue, executing,
                   transcribed, clock, failures, capVars, calls>>

\* line 132 returns; line 133 starts
GetFileReturns(h) ==
    /\ pc[h] = "get_file"
    /\ pc' = [pc EXCEPT ![h] = "download"]
    /\ calls' = [calls EXCEPT ![h].download = @ + 1]
    /\ UNCHANGED <<file_counter, issued, last_update, counter_value, temp_input, exc,
                   future, outcome, sent, tmp_files, output_files, computed, queue,
                   executing, transcribed, clock, failures, capVars>>

GetFileRaises(h) ==
    /\ pc[h] = "get_file"
    /\ Raise(h, "get_file")
    /\ failures < MaxFailures
    /\ failures' = failures + 1
    /\ UNCHANGED <<file_counter, issued, last_update, counter_value, temp_input,
                   future, sent, tmp_files, output_files, computed, queue,
                   executing, transcribed, clock, capVars, calls>>

\* line 133 returns; line 134 starts
DownloadReturns(h) ==
    /\ pc[h] = "download"
    /\ pc' = [pc EXCEPT ![h] = "ack"]
    /\ UNCHANGED <<file_counter, issued, last_update, counter_value, temp_input, exc,
                   future, outcome, sent, tmp_files, output_files, computed, queue,
                   executing, transcribed, clock, failures, capVars, calls>>

\* Mutant: a failed download is started again.
DownloadRaisesRetry(h) ==
    /\ pc[h] = "download"
    /\ failures < MaxFailures
    /\ failures' = failures + 1
    /\ calls' = [calls EXCEPT ![h].download = @ + 1]
    /\ UNCHANGED <<file_counter, issued, last_update, pc, counter_value, temp_input, exc,
                   outcome, future, sent, tmp_files, output_files, computed, queue,
                   executing, transcribed, clock, capVars>>

DownloadRaises(h) ==
    /\ pc[h] = "download"
    /\ Raise(h, "download")
    /\ failures < MaxFailures
    /\ failures' = failures + 1
    /\ UNCHANGED <<file_counter, issued, last_update, counter_value, temp_input,
                   future, sent, tmp_files, output_files, computed, queue,
                   executing, transcribed, clock, capVars, calls>>

\* line 134 returns; lines 136-137 submit the render to EXECUTOR and await it
AckReturns(h) ==
    /\ pc[h] = "ack"
    /\ sent' = [sent EXCEPT ![h] = Append(@, Reply("text", AckText, TRUE))]
    /\ queue' = Append(queue, h)
    /\ future' = [future EXCEPT ![h] = [status |-> "pending", value |-> ""]]
    /\ calls' = [calls EXCEPT ![h].dispatch = @ + 1]
    /\ pc' = [pc EXCEPT ![h] = "await_render"]
    /\ UNCHANGED <<file_counter, issued, last_update, counter_value, temp_input, exc,
                   outcome, tmp_files, output_files, computed, executing,
                   transcribed, clock, failures, capVars>>

AckRaises(h) ==
    /\ pc[h] = "ack"
    /\ sent' = [sent EXCEPT ![h] = Append(@, Reply("text", AckText, FALSE))]
    /\ Raise(h, "reply_text")
    /\ failures < MaxFailures
    /\ failures' = failures + 1
    /\ UNCHANGED <<file_counter, issued, last_update, counter_value, temp_input,
                   future, tmp_files, output_files, computed, queue, executing,
                   transcribed, clock, capVars, calls>>

\* Mutant: the pool starts a thread for every submitted item.
PoolUnbounded(running) == TRUE

\* Mutant: the pool never hands a queued item to a thread.
PoolNeverFree(running) == FALSE

\* ThreadPoolExecutor(max_workers=2), line 43: a queued item starts when
\* fewer than max_workers items are running.
PoolHasFreeWorker(running) == Cardinality(running) < MaxWorkers

WorkerStart(h) ==
    /\ queue # <<>> /\ Head(queue) = h
    /\ PoolHasFreeWorker(executing)
    /\ queue' = Tail(queue)
    /\ executing' = executing \cup {h}
    /\ UNCHANGED <<file_counter, issued, last_update, pc, counter_value, temp_input,
                   exc, future, outcome, sent, tmp_files, output_files, computed,
                   transcribed, clock, failures, capVars, calls>>

\* A worker thread runs process_video_capcut(temp_input, counter_value) to
\* its return or its exception, which sets the future.
WorkerFinish(h) ==
    /\ h \in executing
    /\ \E eng \in Engines :
        LET r == process_video_capcut(temp_input[h] \in tmp_files,
                                      counter_value[h], eng, clock) IN
        /\ output_files' =
              IF r.wrote
              THEN {f \in output_files : f.path # r.dest}
                   \cup {[path |-> r.dest, by |-> counter_value[h]]}
              ELSE output_files
        /\ computed' =
              IF r.dest # "" THEN computed \cup {[id |-> counter_value[h], path |-> r.dest, now |-> clock]}
              ELSE computed
        /\ future' = [future EXCEPT ![h] = [status |-> r.status, value |-> r.value]]
        /\ transcribed' = [transcribed EXCEPT ![h] = eng.transcribe]
        /\ calls' = [calls EXCEPT ![h].transcribe = @ + r.transcribe_calls]
        /\ r.status = "err" => failures < MaxFailures
        /\ failures' = IF r.status = "err" THEN failures + 1 ELSE failures
    /\ executing' = executing \ {h}
    /\ UNCHANGED <<file_counter, issued, last_update, pc, counter_value, temp_input,
                   exc, outcome, sent, tmp_files, queue, clock, capVars>>

\* line 137 returns the path: line 139 opens it and line 140 starts
RenderReturns(h) ==
    /\ pc[h] = "await_render"
    /\ future[h].status = "ok"
    /\ IF \E f \in output_files : Abspath(f.path) = future[h].value
       THEN pc' = [pc EXCEPT ![h] = "send_video"] /\ UNCHANGED <<exc, outcome>>
       ELSE Raise(h, "open")
    /\ transcribed' = [transcribed EXCEPT ![h] = 0]
    /\ UNCHANGED <<file_counter, issued, last_update, counter_value, temp_input,
                   future, sent, tmp_files, output_files, computed, queue,
                   executing, clock, failures, capVars, calls>>

\* Mutant: the failure of the render is dropped and the handler goes on to
\* send the video.
RenderRaisesIgnored(h) ==
    /\ pc[h] = "await_render"
    /\ future[h].status = "err"
    /\ pc' = [pc EXCEPT ![h] = "send_video"]
    /\ transcribed' = [transcribed EXCEPT ![h] = 0]
    /\ UNCHANGED <<file_counter, issued, last_update, counter_value, temp_input, exc,
                   outcome, future, sent, tmp_files, output_files, computed, queue,
                   executing, clock, failures, capVars, calls>>

\* line 137 re-raises the exception of process_video_capcut
RenderRaises(h) ==
    /\ pc[h] = "await_render"
    /\ future[h].status = "err"
    /\ Raise(h, future[h].value)
    /\ transcribed' = [transcribed EXCEPT ![h] = 0]
    /\ UNCHANGED <<file_counter, issued, last_update, counter_value, temp_input,
                   future, sent, tmp_files, output_files, computed, queue,
                   executing, clock, failures, capVars, calls>>

\* line 140 returns; the finally block runs and the handler returns
SendVideoReturns(h) ==
    /\ pc[h] = "send_video"
    /\ sent' = [sent EXCEPT ![h] = Append(@, Reply("video", future[h].value, TRUE))]
    /\ outcome' = [outcome EXCEPT ![h] = "completed"]
    /\ Return(h)
    /\ UNCHANGED <<file_counter, issued, last_update, output_files, computed, queue,
                   executing, clock, failures, capVars, calls>>

SendVideoRaises(h) ==
    /\ pc[h] = "send_video"
    /\ sent' = [sent EXCEPT ![h] = Append(@, Reply("video", future[h].value, FALSE))]
    /\ Raise(h, "send_video")
    /\ failures < MaxFailures
    /\ failures' = failures + 1
    /\ UNCHANGED <<file_counter, issued, last_update, counter_value, temp_input,
                   future, tmp_files, output_files, computed, queue, executing,
                   transcribed, clock, capVars, calls>>

\* line 145 returns; the finally block runs and the handler returns
ErrorReplyReturns(h) ==
    /\ pc[h] = "err_reply"
    /\ sent' = [sent EXCEPT ![h] = Append(@, Reply("text", ErrorText(exc[h]), TRUE))]
    /\ Return(h)
    /\ UNCHANGED <<file_counter, issued, last_update, outcome, output_files, computed,
                   queue, executing, clock, failures, capVars, calls>>

\* line 145 raises; the finally block runs and the exception leaves the handler
ErrorReplyRaises(h) ==
    /\ pc[h] = "err_reply"
    /\ sent' = [sent EXCEPT ![h] = Append(@, Reply("text", ErrorText(exc[h]), FALSE))]
    /\ Return(h)
    /\ failures < MaxFailures
    /\ failures' = failures + 1
    /\ UNCHANGED <<file_counter, issued, last_update, outcome, output_files, computed,
                   queue, executing, clock, capVars, calls>>

\* A second of wall-clock time passes.  Only a running render reads the
\* clock (line 103), so time that passes while none runs is not observable.
Tick ==
    /\ clock < MaxClock
    /\ executing # {}
    /\ clock' = clock + 1
    /\ UNCHANGED <<file_counter, issued, last_update, pc, counter_value, temp_input,
                   exc, future, outcome, sent, tmp_files, output_files, computed,
                   queue, executing, transcribed, failures, capVars, calls>>

JobInit ==
    /\ file_counter = 1
    /\ issued = <<>>
    /\ last_update = [h |-> 0, update |-> [message |-> FALSE, video |-> FALSE, mime |-> "none"]]
    /\ pc = [h \in Handlers |-> "idle"]
    /\ counter_value = [h \in Handlers |-> 0]
    /\ temp_input = [h \in Handlers |-> 0]
    /\ exc = [h \in Handlers |-> "none"]
    /\ future = [h \in Handlers |-> NoFuture]
    /\ outcome = [h \in Handlers |-> "none"]
    /\ sent = [h \in Handlers |-> <<>>]
    /\ tmp_files = {}
    /\ output_files = {}
    /\ computed = {}
    /\ queue = <<>>
    /\ executing = {}
    /\ transcribed = [h \in Handlers |-> 0]
    /\ clock = 0
    /\ failures = 0
    /\ calls = [h \in Handlers |-> NoCalls]

CapIdle ==
    /\ segments = <<>>
    /\ seg_idx = 0
    /\ txt_clips = <<>>
    /\ seg_from = <<>>
    /\ final = <<>>
    /\ cap_pc = "idle"

Init == JobInit /\ CapIdle

Next ==
    \/ \E h \in Handlers : Invoke(h)
    \/ \E h \in Handlers : GetFileReturns(h)
    \/ \E h \in Handlers : GetFileRaises(h)
    \/ \E h \in Handlers : DownloadReturns(h)
    \/ \E h \in Handlers : DownloadRaises(h)
    \/ \E h \in Handlers : AckReturns(h)
    \/ \E h \in Handlers : AckRaises(h)
    \/ \E h \in Handlers : WorkerStart(h)
    \/ \E h \in Handlers : WorkerFinish(h)
    \/ \E h \in Handlers : RenderReturns(h)
    \/ \E h \in Handlers : RenderRaises(h)
    \/ \E h \in Handlers : SendVideoReturns(h)
    \/ \E h \in Handlers : SendVideoRaises(h)
    \/ \E h \in Handlers : ErrorReplyReturns(h)
    \/ \E h \in Handlers : ErrorReplyRaises(h)
    \/ Tick

Spec == Init /\ [][Next]_vars

\* The calls a handler awaits return or raise, and the event loop resumes the
\* coroutine: each await of invocation h is eventually left.
HandlerStep(h) ==
    \/ GetFileReturns(h) \/ GetFileRaises(h)
    \/ DownloadReturns(h) \/ DownloadRaises(h)
    \/ AckReturns(h) \/ AckRaises(h)
    \/ RenderReturns(h) \/ RenderRaises(h)
    \/ SendVideoReturns(h) \/ SendVideoRaises(h)
    \/ ErrorReplyReturns(h) \/ ErrorReplyRaises(h)

\* The liveness check follows the same handlers and workers with the inputs
\* drawn from subsets that keep every branch of the code: an accepted and an
\* ignored update, and a render that fails at each of its stages or returns.
\* The wall clock, which only names the output, stands still.
LiveUpdates == {u \in Updates : u.video \/ u.mime = "application/pdf"}
LiveTranscripts == {0, 2, 4}

InvokeLive(h) == Invoke(h) /\ last_update'.update \in LiveUpdates
WorkerFinishLive(h) == WorkerFinish(h) /\ transcribed'[h] \in LiveTranscripts

NextLive ==
    \/ \E h \in Handlers : InvokeLive(h)
    \/ \E h \in Handlers : HandlerStep(h)
    \/ \E h \in Handlers : WorkerStart(h)
    \/ \E h \in Handlers : WorkerFinishLive(h)

\* A free worker thread takes the head of the queue, and a running
\* process_video_capcut returns or raises.
Fairness ==
    \A h \in Handlers :
        /\ WF_vars(HandlerStep(h))
        /\ WF_vars(WorkerStart(h))
        /\ WF_vars(WorkerFinishLive(h))

SpecFair == Init /\ [][NextLive]_vars /\ Fairness

\* ------------------------------------------------------------------
\* The caption loop of process_video_capcut on its own, one segment a step
\* ------------------------------------------------------------------
\* Segments with word-level timing: a word may end before, when or after it
\* starts.
WordLists ==
    { <<TimedWord(1, b, "a")>> : b \in 0..MaxTime }
    \cup { <<TimedWord(0, 1, "a"), TimedWord(1, b, "b")>> : b \in 0..MaxTime }

WordSegments ==
    { [start |-> Hundredths(0), end |-> Hundredths(MaxTime),
       text |-> <<"a", " ", "b">>, words |-> ws] : ws \in WordLists }
    \cup { [start |-> Hundredths(0), end |-> Hundredths(MaxTime),
            words |-> <<TimedWord(0, 1, "a")>>] }

\* Segments without word-level timing
TokenTexts == { <<"a", " ", "b">>, <<" ", "a", "\t", " ", "b", " ", "c", " ">> }

FallbackSegments ==
    { [start |-> Hundredths(a), end |-> Hundredths(b), text |-> t] :
          a \in 0..1, b \in 1..MaxTime, t \in TokenTexts }
    \cup { [start |-> Hundredths(1), end |-> Hundredths(1), text |-> <<"a", "b">>],
           [start |-> Hundredths(1), text |-> <<"a", " ", "b">>],
           [end |-> Hundredths(MaxTime), text |-> <<"a", " ", "b">>],
           [text |-> <<"a", " ", "b">>],
           [start |-> Hundredths(0), end |-> Hundredths(MaxTime),
            text |-> <<"a", " ", "b">>, words |-> <<>>],
           [start |-> Hundredths(0), end |-> Hundredths(MaxTime), text |-> <<>>],
           [start |-> Hundredths(0), end |-> Hundredths(MaxTime), text |-> <<" ", "\t">>],
           [start |-> Hundredths(0), end |-> Hundredths(MaxTime)],
           [start |-> Hundredths(0), end |-> Hundredths(MaxTime), words |-> <<>>] }

SegmentSet == WordSegments \cup FallbackSegments

RECURSIVE SeqsUpTo(_, _)
SeqsUpTo(S, n) ==
    IF n = 0 THEN {<<>>}
    ELSE LET shorter == SeqsUpTo(S, n - 1) IN
         shorter \cup { Append(q, x) : q \in shorter, x \in S }

CapInit ==
    /\ segments \in SeqsUpTo(SegmentSet, MaxSegs)
    /\ seg_idx = 0
    /\ txt_clips = <<>>
    /\ seg_from = <<>>
    /\ final = <<>>
    /\ cap_pc = "loop"

CurrentSeg == segments[seg_idx + 1]

\* lines 73-76 and 85-99: a segment with a non-empty words list
CapWordLevel ==
    /\ cap_pc = "loop" /\ seg_idx < Len(segments)
    /\ ~UsesFallback(CurrentSeg)
    /\ txt_clips' = txt_clips \o ClipsOfWords(SegWords(CurrentSeg))
    /\ seg_from' = Append(seg_from, Len(txt_clips))
    /\ seg_idx' = seg_idx + 1
    /\ UNCHANGED <<segments, final, cap_pc, jobVars>>

\* lines 73-99: a segment without words whose text is there
CapFallback ==
    /\ cap_pc = "loop" /\ seg_idx < Len(segments)
    /\ UsesFallback(CurrentSeg) /\ ~FallbackRaises(CurrentSeg)
    /\ txt_clips' = txt_clips \o ClipsOfWords(SegWords(CurrentSeg))
    /\ seg_from' = Append(seg_from, Len(txt_clips))
    /\ seg_idx' = seg_idx + 1
    /\ UNCHANGED <<segments, final, cap_pc, jobVars>>

\* line 78: seg["text"] raises KeyError, which leaves process_video_capcut
CapKeyError ==
    /\ cap_pc = "loop" /\ seg_idx < Len(segments)
    /\ UsesFallback(CurrentSeg) /\ FallbackRaises(CurrentSeg)
    /\ cap_pc' = "raised"
    /\ UNCHANGED <<segments, seg_idx, txt_clips, seg_from, final, jobVars>>

\* line 101: the loop is over
CapComposite ==
    /\ cap_pc = "loop" /\ seg_idx = Len(segments)
    /\ final' = Composite(txt_clips)
    /\ cap_pc' = "composited"
    /\ UNCHANGED <<segments, seg_idx, txt_clips, seg_from, jobVars>>

InitCaption == JobInit /\ CapInit

NextCaption == CapWordLevel \/ CapFallback \/ CapKeyError \/ CapComposite

SpecCaption == InitCaption /\ [][NextCaption]_vars

\* ==================================================================
\* Properties
\* ==================================================================
Live(h) == pc[h] \notin {"idle", "done"}
Accepted(h) == outcome[h] \in {"raised", "completed"} \/ Live(h)
Last(q) == q[Len(q)]
IsErrorReply(m) == m.kind = "text" /\ m.body # AckText
IsAck(m) == m.kind = "text" /\ m.body = AckText
IsVideo(m) == m.kind = "video"
Range(q) == {q[i] : i \in DOMAIN q}

\* ------------------------------------------------------------------
\* C1: when the handler of an accepted job finishes, on the success path or
\* after a failure at any step (get_file, download, acknowledgement, render,
\* video reply, error reply), the job's temporary input file does not exist:
\* the finishing step leaves no file under the job's temp_input, and every
\* temporary file on disk belongs to a handler that has not finished yet.
\* ------------------------------------------------------------------
C1_FinishRemoves ==
    \A h \in Handlers :
        (Live(h) /\ pc'[h] = "done") => temp_input[h] \notin tmp_files'

C1_NoLeftover ==
    /\ tmp_files = {temp_input[h] : h \in {g \in Handlers : Live(g)}}
    /\ \A h \in Handlers : ~Live(h) => temp_input[h] = 0

C1_TempInputRemoved == []C1_NoLeftover /\ [][C1_FinishRemoves]_vars

\* a job whose error reply itself raised has finished, and no temporary
\* file is left
C1_Witness ==
    \E h \in Handlers :
        /\ pc[h] = "done" /\ outcome[h] = "raised"
        /\ IsErrorReply(Last(sent[h])) /\ ~Last(sent[h]).ok
        /\ tmp_files = {}

\* ------------------------------------------------------------------
\* C2: the identifiers obtained from file_counter are strictly increasing
\* in the order they are issued (so pairwise distinct, none issued twice),
\* and no two handlers hold the same identifier.
\* ------------------------------------------------------------------
C2_IdsIncreasing ==
    /\ \A i, j \in DOMAIN issued : i < j => issued[i] < issued[j]
    /\ \A h, g \in Handlers :
          (h # g /\ counter_value[h] # 0 /\ counter_value[g] # 0)
              => counter_value[h] # counter_value[g]
    /\ \A h \in Handlers :
          counter_value[h] # 0 => counter_value[h] \in Range(issued)

\* two handlers are in flight at once, each with its identifier
C2_Witness ==
    \E h, g \in Handlers :
        /\ h # g /\ Live(h) /\ Live(g)
        /\ counter_value[h] # 0 /\ counter_value[g] # 0
        /\ Len(issued) >= 2

\* ------------------------------------------------------------------
\* C3: the output paths process_video_capcut computes for two different
\* jobs are different, also when both read the same timestamp.
\* ------------------------------------------------------------------
C3_OutputPathsDistinct ==
    \A a, b \in computed : a.id # b.id => a.path # b.path

\* two jobs computed their paths within the same second
C3_Witness ==
    \E a, b \in computed : a.id # b.id /\ a.now = b.now

\* ------------------------------------------------------------------
\* C7: at most 2 calls of process_video_capcut execute at a time; a job
\* submitted while both workers are busy stays in the queue and starts only
\* when fewer than 2 are running; the render always runs on a pool thread
\* while the coroutine that submitted it is suspended on its future.
\* ------------------------------------------------------------------
InQueue(h) == \E i \in DOMAIN queue : queue[i] = h

C7_PoolState ==
    /\ Cardinality(executing) <= MaxWorkers
    /\ \A h \in executing :
          pc[h] = "await_render" /\ future[h].status = "pending" /\ ~InQueue(h)
    /\ \A h \in Handlers :
          InQueue(h) => pc[h] = "await_render" /\ future[h].status = "pending"

C7_StartsWhenFree ==
    \A h \in Handlers :
        (h \notin executing /\ h \in executing')
            => (Cardinality(executing) < MaxWorkers /\ InQueue(h))

C7_BoundedPool == []C7_PoolState /\ [][C7_StartsWhenFree]_vars

\* both workers are busy and a third job waits in the queue
C7_Witness == Cardinality(executing) = MaxWorkers /\ queue # <<>>

\* ------------------------------------------------------------------
\* Caption events of the segments the loop has consumed
\* ------------------------------------------------------------------
\* the clips appended for the i-th segment
SegClips(i) ==
    SubSeq(txt_clips, seg_from[i] + 1,
           IF i < Len(seg_from) THEN seg_from[i + 1] ELSE Len(txt_clips))

HasWordTiming(seg) == "words" \in DOMAIN seg /\ seg.words # <<>>
SegStart(seg) == IF "start" \in DOMAIN seg THEN seg.start ELSE <<0, 1>>
SegEnd(seg) == IF "end" \in DOMAIN seg THEN seg.end ELSE RAdd(SegStart(seg), <<2, 1>>)
Hundredth == <<1, 100>>

\* ------------------------------------------------------------------
\* C4: in the list given to CompositeVideoClip the base video track is
\* first and occurs once, and the rest is highlight/text pairs: every text
\* primitive is immediately preceded by the highlight of the same event and
\* every highlight is immediately followed by its text.
\* ------------------------------------------------------------------
C4_HighlightBeneathText ==
    cap_pc = "composited" =>
        /\ Len(final) >= 1 /\ final[1].kind = "VideoFileClip"
        /\ \A i \in 2..Len(final) :
              /\ final[i].kind \in {"ColorClip", "TextClip"}
              /\ final[i].kind = "TextClip" =>
                    /\ final[i - 1].kind = "ColorClip"
                    /\ final[i - 1].txt = final[i].txt
              /\ final[i].kind = "ColorClip" =>
                    /\ i < Len(final)
                    /\ final[i + 1].kind = "TextClip"

\* a composited list with the events of two segments
C4_Witness ==
    cap_pc = "composited" /\ Len(segments) = 2 /\ Len(final) >= 7

\* ------------------------------------------------------------------
\* C5: a segment with a non-empty words list yields exactly one caption
\* event per word, in the order of the words, with start = word.start and
\* duration = word.end - word.start, or 0.01 when that is smaller.
\* ------------------------------------------------------------------
FlooredLength(w) ==
    LET d == RSub(w.end, w.start) IN IF RLess(d, Hundredth) THEN Hundredth ELSE d

C5_OneEventPerWord ==
    \A i \in 1..Len(seg_from) :
        HasWordTiming(segments[i]) =>
            LET ws == segments[i].words
                cl == SegClips(i)
            IN  /\ Len(cl) = 2 * Len(ws)
                /\ \A k \in 1..Len(ws) :
                      /\ cl[2 * k - 1].kind = "ColorClip"
                      /\ cl[2 * k].kind = "TextClip"
                      /\ cl[2 * k].txt = ws[k].word
                      /\ cl[2 * k].start = ws[k].start
                      /\ cl[2 * k].duration = FlooredLength(ws[k])

\* a consumed segment of two words, one of them of zero or negative length
C5_Witness ==
    \E i \in 1..Len(seg_from) :
        /\ HasWordTiming(segments[i])
        /\ Len(segments[i].words) = 2
        /\ \E k \in 1..2 : RLeq(segments[i].words[k].end, segments[i].words[k].start)

\* ------------------------------------------------------------------
\* C6: the events synthesized for a segment without word-level timing
\* whose text has N >= 1 tokens are in token order and cut
\* [segment.start, segment.end] into N equal intervals [start, start+duration)
\* with no gap and no overlap.
\* ------------------------------------------------------------------
IsPartition(seg, cl) ==
    LET tokens == Split(seg.text)
        n == Len(tokens)
        a == SegStart(seg)
        b == SegEnd(seg)
        ev(k) == cl[2 * k]
    IN  /\ Len(cl) = 2 * n
        /\ \A k \in 1..n : ev(k).kind = "TextClip" /\ ev(k).txt = tokens[k]
        /\ ev(1).start = a
        /\ \A k \in 1..(n - 1) : RAdd(ev(k).start, ev(k).duration) = ev(k + 1).start
        /\ RAdd(ev(n).start, ev(n).duration) = b
        /\ \A k \in 1..n : ev(k).duration = RDivInt(RSub(b, a), n)

SynthesizedFrom(seg) ==
    ~HasWordTiming(seg) /\ "text" \in DOMAIN seg /\ Len(Split(seg.text)) >= 1

\* the claim as stated, for every such segment
C6_Original ==
    \A i \in 1..Len(seg_from) :
        SynthesizedFrom(segments[i]) => IsPartition(segments[i], SegClips(i))

\* each token's share of the segment is at least the 0.01 floor
ShareAtLeastFloor(seg) ==
    RLeq(RMulInt(Len(Split(seg.text)), Hundredth), RSub(SegEnd(seg), SegStart(seg)))

\* C6 as amended: the same, for the segments in which every token's share
\* (segment.end - segment.start) / N is at least 0.01 s; below that the
\* floor of line 88 lengthens every event and they overlap.
C6_PartitionAboveFloor ==
    \A i \in 1..Len(seg_from) :
        (SynthesizedFrom(segments[i]) /\ ShareAtLeastFloor(segments[i]))
            => IsPartition(segments[i], SegClips(i))

\* a consumed segment of three tokens, each with a share of 0.01 s or more
C6_Witness ==
    \E i \in 1..Len(seg_from) :
        /\ SynthesizedFrom(segments[i]) /\ ShareAtLeastFloor(segments[i])
        /\ Len(Split(segments[i].text)) = 3

\* ------------------------------------------------------------------
\* C8: a job only moves Received -> Downloaded -> Rendering -> Completed,
\* or from one of the first three to Failed; it never moves backwards or
\* past a state.  The render is submitted only by the step that follows a
\* returned download, and a job whose get_file or download raised never
\* enters Rendering and gets a textual error reply.
\* ------------------------------------------------------------------
AllowedMove(a, b) ==
    \/ a = b
    \/ <<a, b>> \in { <<"None", "Received">>, <<"Received", "Downloaded">>,
                     <<"Downloaded", "Rendering">>, <<"Rendering", "Completed">>,
                     <<"Received", "Failed">>, <<"Downloaded", "Failed">>,
                     <<"Rendering", "Failed">> }

C8_Moves ==
    \A h \in Handlers :
        /\ AllowedMove(JobState(h), JobState(h)')
        /\ (future[h].status = "none" /\ future'[h].status = "pending")
              => (pc[h] = "ack" /\ JobState(h) = "Downloaded")

TransportErrorTexts == {ErrorText("get_file"), ErrorText("download")}

\* the handler has finished after get_file or the download raised
FailedBeforeDownloaded(h) ==
    /\ pc[h] = "done" /\ outcome[h] = "raised"
    /\ \A m \in Range(sent[h]) : ~IsAck(m) /\ ~IsVideo(m)

\* the claim as stated: the user gets the error reply
C8_UserGetsErrorReply ==
    \A h \in Handlers :
        FailedBeforeDownloaded(h) =>
            \E m \in Range(sent[h]) :
                IsErrorReply(m) /\ m.body \in TransportErrorTexts /\ m.ok

C8_Original == []C8_UserGetsErrorReply /\ [][C8_Moves]_vars

\* C8 as amended: the same moves; after get_file or the download raised the
\* handler issues exactly one reply, the textual error reply, which reaches
\* the user unless that reply call itself raises.
C8_ErrorReplyIssued ==
    \A h \in Handlers :
        FailedBeforeDownloaded(h) =>
            /\ Len(sent[h]) = 1
            /\ IsErrorReply(sent[h][1])
            /\ sent[h][1].body \in TransportErrorTexts

C8_StateOrder == []C8_ErrorReplyIssued /\ [][C8_Moves]_vars

\* a job whose download raised has finished and its error reply was delivered
C8_Witness ==
    \E h \in Handlers :
        /\ FailedBeforeDownloaded(h)
        /\ sent[h] = <<Reply("text", ErrorText("download"), TRUE)>>

\* ------------------------------------------------------------------
\* C9: when process_video_capcut raises for a job, the job is Failed, the
\* handler's last reply is the textual error reply carrying the cause, and
\* no video reply is sent for the job.
\* ------------------------------------------------------------------
RenderRaised(h) == future[h].status = "err"

C9_FailedNoVideo ==
    \A h \in Handlers :
        RenderRaised(h) =>
            /\ pc[h] \in {"await_render", "err_reply"}
            /\ pc[h] = "err_reply" => (JobState(h) = "Failed" /\ exc[h] = future[h].value)
            /\ \A m \in Range(sent[h]) : ~IsVideo(m)

\* the step that ends the handler of such a job
EndsAfterRenderRaised(h) == RenderRaised(h) /\ pc[h] = "err_reply" /\ pc'[h] = "done"

C9_ReplyIssued ==
    \A h \in Handlers :
        EndsAfterRenderRaised(h) =>
            /\ JobState(h)' = "Failed"
            /\ Len(sent'[h]) = Len(sent[h]) + 1
            /\ IsErrorReply(Last(sent'[h]))
            /\ Last(sent'[h]).body = ErrorText(future[h].value)
            /\ \A m \in Range(sent'[h]) : ~IsVideo(m)

C9_ReplyDelivered ==
    \A h \in Handlers : EndsAfterRenderRaised(h) => Last(sent'[h]).ok

\* the claim as stated: the error reply is sent to the user
C9_Original == []C9_FailedNoVideo /\ [][C9_ReplyIssued /\ C9_ReplyDelivered]_vars

\* C9 as amended: the error reply carrying the cause is issued, and reaches
\* the user unless that reply call itself raises.
C9_RenderFailure == []C9_FailedNoVideo /\ [][C9_ReplyIssued]_vars

\* a job whose transcription raised has finished with the error reply delivered
C9_Witness ==
    \E h \in Handlers :
        /\ pc[h] = "done" /\ outcome[h] = "raised"
        /\ Last(sent[h]) = Reply("text", ErrorText("transcribe"), TRUE)
        /\ \A m \in Range(sent[h]) : ~IsVideo(m)

\* ------------------------------------------------------------------
\* C10: a transcription result with a segment that has no text field makes
\* the whole job fail: process_video_capcut raises, nothing is encoded or
\* written for the job, and the job ends Failed.
\* ------------------------------------------------------------------
TextlessSegment(segs) == \E i \in DOMAIN segs : "text" \notin DOMAIN segs[i]

TextlessUntimedSegment(segs) ==
    \E i \in DOMAIN segs : "text" \notin DOMAIN segs[i] /\ ~HasWordTiming(segs[i])

\* the finished render of h raised the KeyError and left nothing behind
FailedWhole(h) ==
    /\ future[h] = [status |-> "err", value |-> "'text'"]
    /\ \A f \in output_files : f.by # counter_value[h]
    /\ \A c \in computed : c.id # counter_value[h]
    /\ JobState(h) \in {"Rendering", "Failed"}

\* once the render has raised, the next step of the handler makes the job
\* Failed, and Failed is final
EndsFailed ==
    \A h \in Handlers :
        /\ (RenderRaised(h) /\ pc'[h] # pc[h]) => JobState(h)' = "Failed"
        /\ JobState(h) = "Failed" => JobState(h)' = "Failed"

\* the claim as stated: with or without word-level timing
C10_AnyTextlessFails ==
    \A h \in Handlers :
        (transcribed[h] # 0 /\ TextlessSegment(Transcripts[transcribed[h]]))
            => FailedWhole(h)

C10_Original == []C10_AnyTextlessFails /\ [][EndsFailed]_vars

\* C10 as amended: the same for a segment that has no text field and no
\* word-level timing (words absent or empty); a segment with a non-empty
\* words list is captioned from its words and its text is never read.
C10_UntimedTextlessFails ==
    \A h \in Handlers :
        (transcribed[h] # 0 /\ TextlessUntimedSegment(Transcripts[transcribed[h]]))
            => FailedWhole(h)

C10_MissingTextFatal == []C10_UntimedTextlessFails /\ [][EndsFailed]_vars

\* the render of a result whose second segment has neither words nor text
\* has raised
C10_Witness ==
    \E h \in Handlers :
        /\ transcribed[h] # 0
        /\ TextlessUntimedSegment(Transcripts[transcribed[h]])
        /\ Len(Transcripts[transcribed[h]]) = 2
        /\ RenderRaised(h)

\* ------------------------------------------------------------------
\* C11: nothing is retried.  For every job the download is started at most
\* once, the render is submitted to the pool at most once and
\* model.transcribe is called at most once; the calls made match how far the
\* job got; and a job that is Failed stays Failed (it never returns to
\* Downloaded or Rendering).
\* ------------------------------------------------------------------
C11_AtMostOnce ==
    \A h \in Handlers :
        /\ calls[h].download <= 1
        /\ calls[h].dispatch <= 1
        /\ calls[h].transcribe <= 1
        /\ calls[h].transcribe <= calls[h].dispatch
        /\ calls[h].dispatch <= calls[h].download

C11_FailedIsFinal ==
    \A h \in Handlers :
        JobState(h) = "Failed" =>
            /\ JobState(h)' = "Failed"
            /\ calls'[h] = calls[h]
            /\ ~InQueue(h)' /\ h \notin executing'

C11_NoRetry == []C11_AtMostOnce /\ [][C11_FailedIsFinal]_vars

\* a job whose transcription raised has finished, after one download, one
\* dispatch and one transcription call
C11_Witness ==
    \E h \in Handlers :
        /\ pc[h] = "done" /\ outcome[h] = "raised"
        /\ calls[h] = [download |-> 1, dispatch |-> 1, transcribe |-> 1]
        /\ \E m \in Range(sent[h]) : m.body = ErrorText("transcribe")

\* ------------------------------------------------------------------
\* C12: a processing failure of one job leaves every other job untouched.
\* The step in which the render of h raises, the step in which the handler
\* of h catches the failure, and the step in which it cleans up and ends,
\* change nothing of any other job: its state and code position, identifier,
\* temporary input (name and file), future, replies, calls, place in the
\* pool, and every output path computed or written under another identifier;
\* and whatever step another job could take before, it can still take.
\* ------------------------------------------------------------------
JobView(g) ==
    [state |-> JobState(g), pc |-> pc[g], id |-> counter_value[g],
     temp |-> temp_input[g], temp_exists |-> temp_input[g] \in tmp_files,
     future |-> future[g], outcome |-> outcome[g], sent |-> sent[g],
     calls |-> calls[g], running |-> g \in executing,
     queued |-> {i \in DOMAIN queue : queue[i] = g}]

\* what exists under the identifiers other than id
OthersOutputs(id) ==
    [files |-> {f \in output_files : f.by # id},
     paths |-> {c \in computed : c.id # id}]

RenderFails(h) == future[h].status = "pending" /\ future'[h].status = "err"
BecomesFailed(h) == JobState(h) # "Failed" /\ JobState(h)' = "Failed"
CleansUpAfterFailure(h) == pc[h] = "err_reply" /\ pc'[h] = "done"

FailureStep(h) == RenderFails(h) \/ BecomesFailed(h) \/ CleansUpAfterFailure(h)

\* the steps of job g in which no call raises
Progress(g) ==
    \/ GetFileReturns(g) \/ DownloadReturns(g) \/ AckReturns(g)
    \/ WorkerStart(g) \/ WorkerFinish(g)
    \/ RenderReturns(g) \/ RenderRaises(g)
    \/ SendVideoReturns(g) \/ ErrorReplyReturns(g)

C12_OthersUntouched ==
    \A h \in Handlers :
        FailureStep(h) =>
            /\ \A g \in Handlers \ {h} : JobView(g)' = JobView(g)
            /\ \A g \in Handlers \ {h} : (ENABLED Progress(g)) => (ENABLED Progress(g))'
            /\ \A id \in {counter_value[h]} : OthersOutputs(id)' = OthersOutputs(id)

\* no job's temporary input or output is ever lost to another job: a live
\* job past line 129 has its input on disk, whatever else failed meanwhile
C12_InputsKept ==
    \A g \in Handlers : Live(g) => temp_input[g] \in tmp_files

C12_FailureIsolated == []C12_InputsKept /\ [][C12_OthersUntouched]_vars

\* the render of h raised and its handler has cleaned up and ended while a
\* worker is running the render of g, whose input is still on disk
C12_Witness ==
    \E h, g \in Handlers :
        /\ h # g
        /\ pc[h] = "done" /\ outcome[h] = "raised" /\ calls[h].dispatch = 1
        /\ \A m \in Range(sent[h]) : ~IsVideo(m)
        /\ g \in executing /\ pc[g] = "await_render"
        /\ temp_input[g] \in tmp_files

\* ------------------------------------------------------------------
\* C13: a message whose payload is not a video (no video attachment and no
\* document of a video media type) is silently ignored: the invocation ends
\* at once, sends no reply, creates no temporary file, submits nothing to
\* the pool and makes no external call.
\* ------------------------------------------------------------------
VideoMimes == {"video/mp4", "video/webm"}
NotAVideo(u) == u.message /\ ~u.video /\ u.mime \notin VideoMimes

\* invocation h starts in this step, on update u
Starts(h, u) == pc[h] = "idle" /\ pc'[h] # "idle" /\ last_update' = [h |-> h, update |-> u]

C13_IgnoreStep ==
    \A h \in Handlers : \A u \in Updates :
        (Starts(h, u) /\ NotAVideo(u)) =>
            /\ pc'[h] = "done" /\ outcome'[h] = "ignored"
            /\ UNCHANGED <<sent, tmp_files, temp_input, queue, executing, future,
                           output_files, calls>>

C13_IgnoredDidNothing ==
    \A h \in Handlers :
        outcome[h] = "ignored" =>
            /\ pc[h] = "done"
            /\ sent[h] = <<>>
            /\ calls[h] = NoCalls
            /\ temp_input[h] = 0
            /\ ~InQueue(h) /\ h \notin executing

C13_SilentlyIgnored == []C13_IgnoredDidNothing /\ [][C13_IgnoreStep]_vars

\* a PDF document was just handed to the handler, which has returned
C13_Witness ==
    \E h \in Handlers :
        /\ last_update = [h |-> h,
                          update |-> [message |-> TRUE, video |-> FALSE,
                                      mime |-> "application/pdf"]]
        /\ pc[h] = "done" /\ outcome[h] = "ignored" /\ sent[h] = <<>>

\* ------------------------------------------------------------------
\* C14: when every external call returns or raises and the workers are
\* scheduled fairly, every accepted job is eventually Completed or Failed
\* with its handler ended, also when it had to wait behind a full pool; no
\* job stays Received, Downloaded or Rendering forever.
\* ------------------------------------------------------------------
Terminal(h) == pc[h] = "done" /\ JobState(h) \in {"Completed", "Failed"}

C14_EveryJobEnds == \A h \in Handlers : Live(h) ~> Terminal(h)

\* three accepted jobs were dispatched (the pool runs two at a time) and all
\* have ended, one of them Failed
C14_Witness ==
    /\ \A h \in Handlers : Terminal(h) /\ calls[h].dispatch = 1
    /\ \E h \in Handlers : JobState(h) = "Failed"
    /\ \E h \in Handlers : JobState(h) = "Completed"

\* ------------------------------------------------------------------
\* C15: for every caption event, from a segment with word-level timing or
\* from the fallback, the highlight primitive and the text primitive built
\* for it have the same start and the same duration.
\* ------------------------------------------------------------------
C15_PairSameTiming ==
    /\ Len(txt_clips) % 2 = 0
    /\ \A k \in 1..(Len(txt_clips) \div 2) :
          LET blue == txt_clips[2 * k - 1]
              word == txt_clips[2 * k]
          IN  /\ blue.kind = "ColorClip" /\ word.kind = "TextClip"
              /\ blue.txt = word.txt
              /\ blue.start = word.start
              /\ blue.duration = word.duration

\* the loop has consumed a segment with word-level timing holding a word of
\* zero or negative length, and a segment without, both with events
C15_Witness ==
    \E i, j \in 1..Len(seg_from) :
        /\ HasWordTiming(segments[i]) /\ ~HasWordTiming(segments[j])
        /\ \E k \in DOMAIN segments[i].words :
              RLeq(segments[i].words[k].end, segments[i].words[k].start)
        /\ SegClips(i) # <<>> /\ SegClips(j) # <<>>

\* ------------------------------------------------------------------
\* C16: the output directory is append-only.  No step removes a file under
\* OUTPUT_FOLDER or writes over one, so the artifact a completed job was
\* sent from is still there, written by that job, after any later
\* completions, failures and cleanups.
\* ------------------------------------------------------------------
C16_NothingRemovedOrOverwritten == \A f \in output_files : f \in output_files'

C16_SentArtifactPresent ==
    \A h \in Handlers :
        \A m \in Range(sent[h]) :
            IsVideo(m) => \E f \in output_files : Abspath(f.path) = m.body

C16_AppendOnly == []C16_SentArtifactPresent /\ [][C16_NothingRemovedOrOverwritten]_vars

\* three jobs have ended: two completed, with both artifacts on disk, and a
\* later one failed in its render and cleaned up
C16_Witness ==
    \E h, g, k \in Handlers :
        /\ h < g /\ h < k /\ g # k
        /\ pc[h] = "done" /\ outcome[h] = "completed"
        /\ pc[g] = "done" /\ outcome[g] = "completed"
        /\ pc[k] = "done" /\ outcome[k] = "raised" /\ calls[k].dispatch = 1
        /\ Cardinality(output_files) >= 2

\* ------------------------------------------------------------------
\* C17: a segment without word-level timing whose text has no token (empty
\* or all whitespace) yields no caption event and no failure: the loop
\* goes on to the next segment with txt_clips as it was, and the segments
\* after it are still processed.
\* ------------------------------------------------------------------
NoToken(seg) ==
    /\ ~HasWordTiming(seg)
    /\ "text" \in DOMAIN seg
    /\ \A i \in DOMAIN seg.text : seg.text[i] \in Whitespace

C17_SkipStep ==
    (cap_pc = "loop" /\ seg_idx < Len(segments) /\ NoToken(segments[seg_idx + 1]))
        => /\ cap_pc' = "loop"
           /\ seg_idx' = seg_idx + 1
           /\ txt_clips' = txt_clips

C17_NoEvents ==
    /\ \A i \in 1..Len(seg_from) : NoToken(segments[i]) => SegClips(i) = <<>>
    /\ (cap_pc = "raised" => ~NoToken(segments[seg_idx + 1]))

C17_EmptyTextSkipped == []C17_NoEvents /\ [][C17_SkipStep]_vars

\* an all-whitespace segment was skipped and the segment after it gave its
\* events to the composited list
C17_Witness ==
    /\ cap_pc = "composited" /\ Len(segments) = 2
    /\ NoToken(segments[1]) /\ Len(segments[1].text) = 2
    /\ SegClips(1) = <<>> /\ SegClips(2) # <<>>
    /\ Len(final) = 1 + Len(SegClips(2))

\* ------------------------------------------------------------------
\* C18: a job identifier is assigned only to an accepted submission.
\* Handling a message that is ignored (no message, or a payload that is not
\* a recognized video) does not advance file_counter, so the identifiers of
\* the accepted jobs are consecutive: the k-th accepted job has identifier k.
\* ------------------------------------------------------------------
IgnoredAtStart(h) == pc[h] = "idle" /\ pc'[h] = "done"

C18_IgnoreKeepsCounter ==
    \A h \in Handlers : IgnoredAtStart(h) => file_counter' = file_counter

AcceptedUpTo(h) == {g \in Handlers : g <= h /\ Accepted(g)}

C18_Consecutive ==
    \A h \in Handlers : Live(h) => counter_value[h] = Cardinality(AcceptedUpTo(h))

AcceptedAtStart(h) == pc[h] = "idle" /\ pc'[h] = "get_file"

C19_AcceptsAnyVideoType ==
    \A h \in Handlers : \A u \in Updates :
        Starts(h, u) =>
            /\ AcceptedAtStart(h) <=> (u.message /\ (u.video \/ u.mime \in VideoMimes))
            /\ IgnoredAtStart(h) <=> ~AcceptedAtStart(h)

C19_Original == [][C19_AcceptsAnyVideoType]_vars

\* C19 as amended: accepted exactly when the message carries a native video
\* attachment or a document whose declared media type is video/mp4; a
\* document of another video type is ignored like any other payload.
C19_AcceptsVideoOrMp4 ==
    \A h \in Handlers : \A u \in Updates :
        Starts(h, u) =>
            /\ AcceptedAtStart(h) <=> (u.message /\ (u.video \/ u.mime = "video/mp4"))
            /\ IgnoredAtStart(h) <=> ~AcceptedAtStart(h)

C19_AcceptanceRule == [][C19_AcceptsVideoOrMp4]_vars

\* a video/webm document was just ignored while the job of an accepted
\* message is under way
C19_Witness ==
    \E h, g \in Handlers :
        /\ last_update = [h |-> h,
                          update |-> [message |-> TRUE, video |-> FALSE, mime |-> "video/webm"]]
        /\ pc[h] = "done" /\ outcome[h] = "ignored"
        /\ Live(g)

\* ------------------------------------------------------------------
\* C20: temporary inputs are isolated and outlive their render.  No two
\* live jobs hold the same temporary input path; the temporary input of a
\* job exists for as long as its render is queued or a worker executes it;
\* a job's cleanup runs only after its own worker call has returned and
\* removes no file but its own.
\* ------------------------------------------------------------------
C20_Isolated ==
    \A h, g \in Handlers :
        (h # g /\ Live(h) /\ Live(g)) => temp_input[h] # temp_input[g]

C20_InputOutlivesRender ==
    \A h \in Handlers :
        (InQueue(h) \/ h \in executing) =>
            /\ pc[h] = "await_render"
            /\ temp_input[h] # 0
            /\ temp_input[h] \in tmp_files

C20_CleanupAfterRender ==
    \A h \in Handlers :
        (Live(h) /\ pc'[h] = "done") =>
            /\ ~InQueue(h) /\ h \notin executing
            /\ future[h].status # "pending"
            /\ tmp_files' = tmp_files \ {temp_input[h]}

C20_IsolatedAndKept == C20_Isolated /\ C20_InputOutlivesRender

C20_TempInputs == []C20_IsolatedAndKept /\ [][C20_CleanupAfterRender]_vars

\* two workers execute the renders of two jobs, each on its own existing
\* input, after a third job has been downloaded, has ended and was cleaned up
C20_Witness ==
    \E h, g, k \in Handlers :
        /\ h # g /\ {h, g} \subseteq executing
        /\ temp_input[h] # temp_input[g]
        /\ {temp_input[h], temp_input[g]} \subseteq tmp_files
        /\ pc[k] = "done" /\ calls[k].download = 1
        /\ Cardinality(tmp_files) = 2

====
